---- MODULE Spec2Model ----
(***************************************************************************)
(* Movie Meter (ProjectSourceCode/index.js): an express application with   *)
(* session authentication, a PostgreSQL store of four tables (users,       *)
(* movies, reviews, user_list) and an OMDB catalog client.                 *)
(*                                                                         *)
(* One request is one step: a handler is an operator from the state and    *)
(* the request (with the environment's choices for it: the salt bcrypt     *)
(* draws, the store fault, the catalog's answers) to the new tables, the   *)
(* new session store and the response.  A statement that reaches the store *)
(* before a fault keeps its effect: no handler opens a transaction.        *)
(***************************************************************************)
EXTENDS Integers, Sequences, FiniteSets, TLC

\* the four tables, the session store, the last response, (history) the
\* credentials of every registration that was answered with success, and
\* the requests whose handlers stand at an await
VARIABLES users, movies, reviews, user_list, sess, resp, registered, flight

vars == <<users, movies, reviews, user_list, sess, resp, registered, flight>>

(***************************************************************************)
(* Bounds of the model.                                                    *)
(***************************************************************************)
\* rows the four tables may hold together
MaxRows == 3
\* browser sessions (cookies)
NumClients == 1
\* requests in flight together
MaxFlights == 2

(***************************************************************************)
(* Program constants.                                                      *)
(***************************************************************************)
\* CHECK (rating BETWEEN 1 AND 10)
MinRating == 1
MaxRating == 10
\* fetchMoviesByTitle: .slice(0, 10)
SearchSlice == 10
\* fetchPopularMovies: uniqueMovies.slice(0, 50)
PopularSlice == 50
\* profile: LIMIT 10
TopLimit == 10

(***************************************************************************)
(* Values.  A field of a request body or of a row that may be absent is    *)
(* None or Some(v): undefined in JavaScript and NULL in SQL.               *)
(***************************************************************************)
None == <<>>
Some(v) == <<v>>
Val(o) == o[1]

Clients == 1..NumClients
Usernames == {"alice", "bob"}
Passwords == {"pw12345", "hunter2"}
Salts == {"s1"}
\* the titles of the model, in the store's (alphabetical) collation order
TitleOrder ==
    <<"Alien", "Brazil", "Casablanca", "Dune", "Eraserhead", "Fargo",
      "Gattaca", "Heat", "Interstellar", "Jaws", "Kes">>
\* the titles requests name
Titles == {"Interstellar"}
Years == {2014, 2015}
ReviewTexts == {"Great"}

\* what a form or JSON body may carry in a text field: nothing, "", a value
Field(S) == {None, Some("")} \cup {Some(v) : v \in S}
Opt(S) == {None} \cup {Some(v) : v \in S}

\* mutant: only an absent field is refused (x === undefined)
FalsyUndefinedOnly(f) == f = None

\* JavaScript's !x for a body field: undefined and "" are falsy
Falsy(f) == f = None \/ f = Some("")

RatingInputs == {MinRating - 1, MinRating, MaxRating, MaxRating + 1}

(***************************************************************************)
(* bcrypt.  hash draws a salt and keeps it in the hash; compare recomputes *)
(* the digest of the candidate under the stored salt.  The digest is       *)
(* injective on the passwords of the model (all shorter than bcrypt's 72   *)
(* bytes).                                                                 *)
(***************************************************************************)
Digest(password, salt) == <<"bcrypt", salt, password>>

BcryptHash(password, salt) == [salt |-> salt, digest |-> Digest(password, salt)]

\* mutant: every candidate matches
BcryptCompareAlways(password, hash) == TRUE

\* mutant: the candidate is compared with the stored hash as text
BcryptComparePlain(password, hash) == <<password>> = hash.digest

BcryptCompare(password, hash) == Digest(password, hash.salt) = hash.digest

(***************************************************************************)
(* The store.  A table is the sequence of its rows in insertion order; a   *)
(* SERIAL key is the row's position (rows are never deleted; the gaps a    *)
(* failed insert leaves in a sequence are not modelled, keys being used    *)
(* for equality only).  A statement returns Ok(table, value) or Fail(err). *)
(***************************************************************************)
\* err.code: the SQLSTATE (or driver) code; err.unique: /unique/i matches
\* err.message
PgError(code, unique) == [code |-> code, unique |-> unique]

UniqueViolation == PgError("23505", TRUE)
NotNullViolation == PgError("23502", FALSE)
CheckViolation == PgError("23514", FALSE)

\* faults of the environment: the connection is refused; a failure whose
\* message names something called "unique" (a host, a database, a role)
\* without being a uniqueness violation
ConnRefused == PgError("ECONNREFUSED", FALSE)
OtherUniqueMsg == PgError("3D000", TRUE)

NoFault == "none"
RegisterFaults == {NoFault, "refused", "uniquemsg"}
Faulty(q) == q.fault # NoFault
FaultError(f) ==
    IF f = NoFault THEN <<>>
    ELSE IF f = "uniquemsg" THEN <<OtherUniqueMsg>> ELSE <<ConnRefused>>

Ok(tbl, v) == [ok |-> TRUE, tbl |-> tbl, val |-> v, err |-> PgError("", FALSE)]
Fail(tbl, e) == [ok |-> FALSE, tbl |-> tbl, val |-> None, err |-> e]

UserIdsOf(tbl, username) == {i \in 1..Len(tbl) : tbl[i].username = username}

UserRow(tbl, i) ==
    [user_id |-> i, username |-> tbl[i].username, password |-> tbl[i].password]

\* mutant: the username column is not UNIQUE
InsertUserNotUnique(tbl, username, hash) ==
    Ok(Append(tbl, [username |-> username, password |-> hash]), None)

\* INSERT INTO users (username, password) VALUES ($1, $2), username UNIQUE
InsertUser(tbl, username, hash) ==
    IF UserIdsOf(tbl, username) # {}
    THEN Fail(tbl, UniqueViolation)
    ELSE Ok(Append(tbl, [username |-> username, password |-> hash]), None)

\* a oneOrNone query that finds more than one row rejects
MultipleRows == PgError("queryResultErrorCode.multiple", FALSE)

\* SELECT * FROM users WHERE username = $1 (oneOrNone)
SelectUser(tbl, username) ==
    LET ids == UserIdsOf(tbl, username) IN
    IF ids = {} THEN Ok(tbl, None)
    ELSE IF Cardinality(ids) > 1 THEN Fail(tbl, MultipleRows)
    ELSE Ok(tbl, Some(UserRow(tbl, CHOOSE i \in ids : TRUE)))

MovieIdsOf(tbl, title) == {i \in 1..Len(tbl) : Some(tbl[i].title) = title}

MinOf(S) == CHOOSE i \in S : \A j \in S : i <= j

\* mutant: the conflicting row is found and left as it is
UpsertMovieKeepYear(tbl, title, year) ==
    LET ids == MovieIdsOf(tbl, title) IN
    IF title = None THEN Fail(tbl, NotNullViolation)
    ELSE IF ids # {} THEN Ok(tbl, MinOf(ids))
    ELSE Ok(Append(tbl, [title |-> Val(title), release_year |-> year]),
            Len(tbl) + 1)

\* INSERT INTO movies (title, release_year) VALUES ($1, $2)
\* ON CONFLICT (title) DO UPDATE SET release_year = EXCLUDED.release_year
\* RETURNING movie_id.  title is NOT NULL; an undefined parameter is NULL.
UpsertMovie(tbl, title, year) ==
    LET ids == MovieIdsOf(tbl, title) IN
    IF title = None THEN Fail(tbl, NotNullViolation)
    ELSE IF ids # {}
    THEN Ok([tbl EXCEPT ![MinOf(ids)].release_year = year], MinOf(ids))
    ELSE Ok(Append(tbl, [title |-> Val(title), release_year |-> year]),
            Len(tbl) + 1)

\* SELECT movie_id FROM movies WHERE title = $1 (oneOrNone); title = NULL
\* is true of no row
SelectMovie(tbl, title) ==
    LET ids == MovieIdsOf(tbl, title) IN
    IF title = None \/ ids = {} THEN Ok(tbl, None)
    ELSE IF Cardinality(ids) > 1 THEN Fail(tbl, MultipleRows)
    ELSE Ok(tbl, Some(MinOf(ids)))

\* INSERT INTO movies (title) VALUES ($1) RETURNING movie_id
InsertMovieTitle(tbl, title) ==
    IF title = None THEN Fail(tbl, NotNullViolation)
    ELSE IF MovieIdsOf(tbl, title) # {} THEN Fail(tbl, UniqueViolation)
    ELSE Ok(Append(tbl, [title |-> Val(title), release_year |-> None]),
            Len(tbl) + 1)

\* rating INT CHECK (rating BETWEEN 1 AND 10): a CHECK is satisfied when
\* its expression is true or NULL, and the column is not NOT NULL
RatingCheck(rating) ==
    rating = None \/ (Val(rating) >= MinRating /\ Val(rating) <= MaxRating)

\* INSERT INTO reviews (user_id, movie_id, rating, review_text)
\* VALUES ($1, $2, $3, $4).  Both foreign keys name rows that exist: no
\* statement of the program deletes a user or a movie.
InsertReview(tbl, user_id, movie_id, rating, review_text) ==
    IF ~RatingCheck(rating) THEN Fail(tbl, CheckViolation)
    ELSE Ok(Append(tbl, [user_id |-> user_id, movie_id |-> movie_id,
                         rating |-> rating, review_text |-> review_text]),
            None)

\* mutant: a plain insert into a table without the UNIQUE pair
InsertUserListPlain(tbl, user_id, movie_id) ==
    Ok(Append(tbl, [user_id |-> user_id, movie_id |-> movie_id]), None)

\* INSERT INTO user_list (user_id, movie_id) VALUES ($1, $2)
\* ON CONFLICT (user_id, movie_id) DO NOTHING
InsertUserList(tbl, user_id, movie_id) ==
    IF \E i \in 1..Len(tbl) :
          tbl[i].user_id = user_id /\ tbl[i].movie_id = movie_id
    THEN Ok(tbl, None)
    ELSE Ok(Append(tbl, [user_id |-> user_id, movie_id |-> movie_id]), None)

\* a statement the environment fails (fault = Some(err)) never reaches the
\* table
Issue(fault, tbl, result) == IF fault = None THEN result ELSE Fail(tbl, Val(fault))

\* the k-th statement of a handler fails when the request's faultAt is k
FaultAt(q, k) == IF q.faultAt = k THEN Some(ConnRefused) ELSE None

(***************************************************************************)
(* Responses.  res.redirect answers 302, res.render 200, and               *)
(* res.status(n).json n.  queries and catalog count the store statements   *)
(* and the catalog calls the handler issued; err is the code of the error  *)
(* its catch block logged ("" when none); data is what a page was rendered *)
(* with.                                                                   *)
(***************************************************************************)
NoMsg == ""
MsgRequired == "Username and password are required."
MsgRegistered == "User registered successfully"
MsgExists == "Username already exists. Please choose another."
MsgRegFailed == "Registration failed. Please try again later."
MsgNotFound == "User not found. Please register first."
MsgIncorrect == "Incorrect username or password."
MsgLoginOk == "Login successful"
MsgLoginFailed == "Login failed. Please try again."
MsgNoKey == "OMDB API key not configured."
MsgNoMovies == "No movies found for your search."
MsgCatalogError == "Error loading movies. Try again later."
MsgNoReviews == "No reviews yet"

Response(kind, status, target, message) ==
    [kind |-> kind, status |-> status, target |-> target, message |-> message,
     route |-> "", sid |-> 0, queries |-> 0, catalog |-> 0, err |-> "",
     data |-> <<>>]

Redirect(to) == Response("redirect", 302, to, NoMsg)
Render(view, message) == Response("render", 200, view, message)
Json(status, message) == Response("json", status, "", message)

\* isJsonRequest(req) ? res.status(status).json({message})
\*                    : res.render(view, {message})
JsonOrRender(json, status, view, message) ==
    IF json THEN Json(status, message) ELSE Render(view, message)

(***************************************************************************)
(* A handler runs in a state w of the tables and the session store; its    *)
(* outcome is the state after it and the response.                         *)
(***************************************************************************)
Outcome(u, m, r, l, s, rsp) ==
    [users |-> u, movies |-> m, reviews |-> r, user_list |-> l, sess |-> s,
     resp |-> rsp]

\* the handler touched nothing
Untouched(w, rsp) ==
    Outcome(w.users, w.movies, w.reviews, w.user_list, w.sess, rsp)

(***************************************************************************)
(* POST /register                                                          *)
(***************************************************************************)
\* the handler never reads the session: the request carries none (sid 0)
RegisterRequests ==
    [sid : {0}, json : BOOLEAN, username : Field(Usernames),
     password : Field(Passwords), salt : Salts, fault : RegisterFaults]

\* the requests a step draws: a fault is drawn only for a request that
\* reaches the store
Reaching(Q) == {q \in Q : Falsy(q.username) \/ Falsy(q.password) => ~Faulty(q)}

RegisterErrorMessage(err) ==
    IF err.code = "23505" \/ err.unique THEN MsgExists ELSE MsgRegFailed

RegisterErrorStatus(err) == IF err.code = "23505" THEN 400 ELSE 500

Register(w, q) ==
    IF Falsy(q.username) \/ Falsy(q.password)
    THEN Untouched(w, JsonOrRender(q.json, 400, "register", MsgRequired))
    ELSE
      LET hash == BcryptHash(Val(q.password), q.salt)
          ins == Issue(FaultError(q.fault), w.users,
                       InsertUser(w.users, Val(q.username), hash))
          err == ins.err
      IN
      IF ins.ok
      THEN Outcome(ins.tbl, w.movies, w.reviews, w.user_list, w.sess,
                   [(IF q.json THEN Json(200, MsgRegistered)
                               ELSE Redirect("/login"))
                    EXCEPT !.queries = 1])
      ELSE Untouched(w, [JsonOrRender(q.json, RegisterErrorStatus(err),
                                   "register", RegisterErrorMessage(err))
                      EXCEPT !.queries = 1, !.err = err.code])

(***************************************************************************)
(* POST /login                                                             *)
(***************************************************************************)
LoginRequests ==
    [sid : Clients, json : BOOLEAN, username : Field(Usernames),
     password : Field(Passwords), fault : {NoFault, "refused"}]

Login(w, q) ==
    IF Falsy(q.username) \/ Falsy(q.password)
    THEN Untouched(w, JsonOrRender(q.json, 400, "login", MsgRequired))
    ELSE
      LET sel == Issue(FaultError(q.fault), w.users,
                       SelectUser(w.users, Val(q.username))) IN
      IF ~sel.ok
      THEN Untouched(w, [JsonOrRender(q.json, 500, "login", MsgLoginFailed)
                      EXCEPT !.queries = 1, !.err = sel.err.code])
      ELSE IF sel.val = None
      THEN Untouched(w, [JsonOrRender(q.json, 401, "login", MsgNotFound)
                      EXCEPT !.queries = 1])
      ELSE IF ~BcryptCompare(Val(q.password), Val(sel.val).password)
      THEN Untouched(w, [JsonOrRender(q.json, 401, "login", MsgIncorrect)
                      EXCEPT !.queries = 1])
      ELSE Outcome(w.users, w.movies, w.reviews, w.user_list,
                   [w.sess EXCEPT ![q.sid] = sel.val],
                   [(IF q.json THEN Json(200, MsgLoginOk)
                               ELSE Redirect("/discover"))
                    EXCEPT !.queries = 1])

(***************************************************************************)
(* The authentication gate and the routes behind it.                       *)
(***************************************************************************)
\* auth: !req.session.user
Authenticated(w, sid) == w.sess[sid] # None

SessionUser(w, sid) == Val(w.sess[sid])

\* req.session.user.user_id of a session without a user throws inside the
\* handler's try; its catch answers with a redirect to /discover
SessionTypeError == [Redirect("/discover") EXCEPT !.err = "TypeError"]

\* mutant: the gate lets every request through
AuthOpen(w, sid, next) == next

\* app.use(auth): the one cut between the public and the protected routes
Auth(w, sid, next) ==
    IF ~Authenticated(w, sid) THEN Untouched(w, Redirect("/login")) ELSE next

(***************************************************************************)
(* POST /movies/add                                                        *)
(***************************************************************************)
AddMovieRequests ==
    [sid : Clients, title : Opt(Titles), year : Opt(Years), faultAt : 0..2]

AddMovie(w, q) ==
    IF ~Authenticated(w, q.sid) THEN Untouched(w, SessionTypeError) ELSE
    LET userId == SessionUser(w, q.sid).user_id
        up == Issue(FaultAt(q, 1), w.movies,
                    UpsertMovie(w.movies, q.title, q.year))
        ins == Issue(FaultAt(q, 2), w.user_list,
                     InsertUserList(w.user_list, userId, up.val))
    IN
    IF ~up.ok
    THEN Untouched(w, [Redirect("/discover")
                    EXCEPT !.queries = 1, !.err = up.err.code])
    ELSE IF ~ins.ok
    THEN Outcome(w.users, up.tbl, w.reviews, w.user_list, w.sess,
                 [Redirect("/discover")
                  EXCEPT !.queries = 2, !.err = ins.err.code])
    ELSE Outcome(w.users, up.tbl, w.reviews, ins.tbl, w.sess,
                 [Redirect("/discover") EXCEPT !.queries = 2])

(***************************************************************************)
(* GET /reviews/new, POST /reviews/add, GET /reviews                       *)
(***************************************************************************)
NewReviewRequests == [sid : Clients, title : Opt(Titles)]

NewReview(w, q) ==
    Untouched(w, [Render("review", NoMsg) EXCEPT !.data = Some(q.title)])

AddReviewRequests ==
    [sid : Clients, title : Opt(Titles), rating : Opt(RatingInputs),
     review_text : {Some(t) : t \in ReviewTexts}, faultAt : 0..3]

AddReview(w, q) ==
    IF ~Authenticated(w, q.sid) THEN Untouched(w, SessionTypeError) ELSE
    LET userId == SessionUser(w, q.sid).user_id
        sel == Issue(FaultAt(q, 1), w.movies, SelectMovie(w.movies, q.title))
        mk == IF sel.val = None
              THEN Issue(FaultAt(q, 2), w.movies,
                         InsertMovieTitle(w.movies, q.title))
              ELSE Ok(w.movies, Val(sel.val))
        n == IF sel.val = None THEN 2 ELSE 1
        ins == Issue(FaultAt(q, 3), w.reviews,
                     InsertReview(w.reviews, userId, mk.val, q.rating,
                                  q.review_text))
    IN
    IF ~sel.ok
    THEN Untouched(w, [Redirect("/discover")
                    EXCEPT !.queries = 1, !.err = sel.err.code])
    ELSE IF ~mk.ok
    THEN Untouched(w, [Redirect("/discover")
                    EXCEPT !.queries = n, !.err = mk.err.code])
    ELSE IF ~ins.ok
    THEN Outcome(w.users, mk.tbl, w.reviews, w.user_list, w.sess,
                 [Redirect("/discover")
                  EXCEPT !.queries = n + 1, !.err = ins.err.code])
    ELSE Outcome(w.users, mk.tbl, ins.tbl, w.user_list, w.sess,
                 [Redirect("/discover") EXCEPT !.queries = n + 1])

ReadReviewsRequests == [sid : Clients, title : Field(Titles), faultAt : 0..2]

\* SELECT r.rating, r.review_text, u.username FROM reviews r
\* JOIN users u ON r.user_id = u.user_id WHERE r.movie_id = $1
SelectReviewsOf(w, movie_id) ==
    LET hit(r) == r.movie_id = movie_id /\ r.user_id \in 1..Len(w.users)
        row(r) == [rating |-> r.rating, review_text |-> r.review_text,
                   username |-> w.users[r.user_id].username]
        sel == SelectSeq(w.reviews, hit)
    IN [i \in 1..Len(sel) |-> row(sel[i])]

ReadReviews(w, q) ==
    LET sel == Issue(FaultAt(q, 1), w.movies, SelectMovie(w.movies, q.title))
        fails2 == sel.val # None /\ q.faultAt = 2
        rows == IF sel.val = None THEN <<>>
                ELSE SelectReviewsOf(w, Val(sel.val))
        n == IF sel.val = None THEN 1 ELSE 2
    IN
    IF Falsy(q.title) THEN Untouched(w, Redirect("/discover"))
    ELSE IF ~sel.ok
    THEN Untouched(w, [Redirect("/discover")
                    EXCEPT !.queries = 1, !.err = sel.err.code])
    ELSE IF fails2
    THEN Untouched(w, [Redirect("/discover")
                    EXCEPT !.queries = 2, !.err = ConnRefused.code])
    ELSE Untouched(w, [Render("read-review",
                           IF rows = <<>> THEN MsgNoReviews ELSE NoMsg)
                    EXCEPT !.queries = n,
                           !.data = Some([title |-> q.title, reviews |-> rows])])

(***************************************************************************)
(* GET /logout: req.session.destroy removes the session from the store.    *)
(***************************************************************************)
LogoutRequests == [sid : Clients]

\* mutant: the page is rendered and the session is left in the store
LogoutKeepsSession(w, q) == Untouched(w, Render("logout", NoMsg))

Logout(w, q) ==
    Outcome(w.users, w.movies, w.reviews, w.user_list,
            [w.sess EXCEPT ![q.sid] = None],
            Render("logout", NoMsg))

(***************************************************************************)
(* GET /profile: three reads issued together (Promise.all).                *)
(***************************************************************************)
ProfileRequests ==
    [sid : Clients, sort : Opt({"rating_asc", "rating_desc"}), faultAt : 0..3]

TitleRank(t) == CHOOSE i \in DOMAIN TitleOrder : TitleOrder[i] = t

\* SELECT m.title, m.release_year FROM user_list ul JOIN movies m ...
\* WHERE ul.user_id = $1 ORDER BY m.title ASC
SelectWatchlist(w, userId) ==
    LET mine(r) == r.user_id = userId /\ r.movie_id \in 1..Len(w.movies)
        sel == SelectSeq(w.user_list, mine)
        rows == [i \in 1..Len(sel) |-> w.movies[sel[i].movie_id]]
        before(a, b) == TitleRank(a.title) < TitleRank(b.title)
    IN SortSeq(rows, before)

\* ORDER BY r.rating ASC puts NULL last, DESC puts it first
RatingBefore(a, b, asc) ==
    IF a = None \/ b = None
    THEN (IF asc THEN a # None /\ b = None ELSE a = None /\ b # None)
    ELSE (IF asc THEN Val(a) < Val(b) ELSE Val(a) > Val(b))

\* SELECT m.title, m.release_year, r.rating, r.review_text FROM reviews r
\* JOIN movies m ... WHERE r.user_id = $1 ORDER BY ${orderBy}
SelectMyReviews(w, userId, asc) ==
    LET mine(r) == r.user_id = userId /\ r.movie_id \in 1..Len(w.movies)
        sel == SelectSeq(w.reviews, mine)
        rows == [i \in 1..Len(sel) |->
                    [title |-> w.movies[sel[i].movie_id].title,
                     release_year |-> w.movies[sel[i].movie_id].release_year,
                     rating |-> sel[i].rating,
                     review_text |-> sel[i].review_text]]
        before(a, b) ==
            \/ RatingBefore(a.rating, b.rating, asc)
            \/ a.rating = b.rating /\ TitleRank(a.title) < TitleRank(b.title)
    IN SortSeq(rows, before)

RECURSIVE SumRatings(_)
SumRatings(rs) ==
    IF rs = <<>> THEN 0
    ELSE (IF Head(rs).rating = None THEN 0 ELSE Val(Head(rs).rating))
         + SumRatings(Tail(rs))

RECURSIVE SetToSeq(_)
SetToSeq(S) ==
    IF S = {} THEN <<>>
    ELSE LET x == MinOf(S) IN <<x>> \o SetToSeq(S \ {x})

\* mutant: LIMIT one short
TakeShort(s, n) == SubSeq(s, 1, IF Len(s) < n - 1 THEN Len(s) ELSE n - 1)

Take(s, n) == SubSeq(s, 1, IF Len(s) < n THEN Len(s) ELSE n)

\* AVG(r.rating) as the fraction <<sum, count of non-NULL ratings>>, None
\* when every rating of the group is NULL
AvgBefore(a, b) ==
    IF a = None \/ b = None THEN a = None /\ b # None
    ELSE Val(a)[1] * Val(b)[2] > Val(b)[1] * Val(a)[2]

\* SELECT m.title, m.release_year, AVG(r.rating), COUNT(*) ...
\* WHERE r.user_id = $1 GROUP BY m.movie_id, m.title, m.release_year
\* ORDER BY AVG(r.rating) DESC, COUNT(*) DESC, m.title ASC LIMIT 10
SelectTopMovies(w, userId) ==
    LET mine(r) == r.user_id = userId /\ r.movie_id \in 1..Len(w.movies)
        sel == SelectSeq(w.reviews, mine)
        ids == SetToSeq({sel[i].movie_id : i \in 1..Len(sel)})
        group(m) == LET of(r) == r.movie_id = m
                        rs == SelectSeq(sel, of)
                        rated(r) == r.rating # None
                        n == Len(SelectSeq(rs, rated))
                    IN [title |-> w.movies[m].title,
                        release_year |-> w.movies[m].release_year,
                        avg_rating |-> IF n = 0 THEN None
                                       ELSE Some(<<SumRatings(rs), n>>),
                        review_count |-> Len(rs)]
        rows == [i \in 1..Len(ids) |-> group(ids[i])]
        before(a, b) ==
            \/ AvgBefore(a.avg_rating, b.avg_rating)
            \/ /\ ~AvgBefore(b.avg_rating, a.avg_rating)
               /\ \/ a.review_count > b.review_count
                  \/ /\ a.review_count = b.review_count
                     /\ TitleRank(a.title) < TitleRank(b.title)
    IN Take(SortSeq(rows, before), TopLimit)

\* mutant: the reads are awaited one by one and a failed read renders as an
\* empty list (Promise.allSettled)
ProfilePartial(w, q) ==
    IF ~Authenticated(w, q.sid) THEN Untouched(w, SessionTypeError) ELSE
    LET user == SessionUser(w, q.sid)
        sort == IF q.sort = None THEN "rating_desc" ELSE Val(q.sort)
    IN
    Untouched(w,
      [Render("profile", NoMsg)
       EXCEPT !.queries = 3,
              !.err = IF q.faultAt # 0 THEN ConnRefused.code ELSE "",
              !.data = Some([username |-> user.username,
                             watchlist |-> IF q.faultAt = 1 THEN <<>>
                                           ELSE SelectWatchlist(w, user.user_id),
                             reviews |-> IF q.faultAt = 2 THEN <<>>
                                         ELSE SelectMyReviews(w, user.user_id,
                                                  sort = "rating_asc"),
                             topMovies |-> IF q.faultAt = 3 THEN <<>>
                                           ELSE SelectTopMovies(w, user.user_id),
                             sort |-> sort])])

Profile(w, q) ==
    IF ~Authenticated(w, q.sid) THEN Untouched(w, SessionTypeError) ELSE
    LET user == SessionUser(w, q.sid)
        sort == IF q.sort = None THEN "rating_desc" ELSE Val(q.sort)
    IN
    IF q.faultAt # 0
    THEN Untouched(w, [Redirect("/discover")
                    EXCEPT !.queries = 3, !.err = ConnRefused.code])
    ELSE Untouched(w,
           [Render("profile", NoMsg)
            EXCEPT !.queries = 3,
                   !.data = Some([username |-> user.username,
                                  watchlist |-> SelectWatchlist(w, user.user_id),
                                  reviews |-> SelectMyReviews(w, user.user_id,
                                                  sort = "rating_asc"),
                                  topMovies |-> SelectTopMovies(w, user.user_id),
                                  sort |-> sort])])

(***************************************************************************)
(* The catalog (OMDB) and GET /discover.  A catalog call answers a list    *)
(* ("ok"), Response: "False" ("nomatch") or fails in transport ("error").  *)
(* A listed movie is modelled by its imdbID.                               *)
(***************************************************************************)
CatalogOutcomes == {"ok", "nomatch", "error"}

PopularSearches == <<"Avengers", "Batman", "Spider", "Star Wars", "Harry Potter">>

Top10Titles ==
    <<"The Shawshank Redemption", "The Godfather", "The Dark Knight",
      "Inception", "Interstellar", "Pulp Fiction", "Fight Club",
      "Forrest Gump", "The Matrix", "Goodfellas">>

SearchQueries == {"Interstellar"}

\* what the catalog lists for a search term: neighbouring searches share a
\* movie
CatalogSearch(term) ==
    CASE term = "Avengers" -> <<"tt01", "tt02">>
      [] term = "Batman" -> <<"tt02", "tt03">>
      [] term = "Spider" -> <<"tt03", "tt04">>
      [] term = "Star Wars" -> <<"tt04", "tt05">>
      [] term = "Harry Potter" -> <<"tt05", "tt01">>
      [] OTHER -> <<"tt10", "tt11">>

\* the environment's answers to the calls of one request
CatalogBehaviours(Shapes) ==
    {[query |-> a,
      search |-> [i \in DOMAIN PopularSearches |-> IF i <= k[1] THEN a ELSE b],
      lookup |-> [i \in DOMAIN Top10Titles |-> IF i <= k[2] THEN b ELSE a]] :
        a \in CatalogOutcomes, b \in CatalogOutcomes, k \in Shapes}

\* every call of a request is answered alike
UniformCatalog == {[query |-> a,
                    search |-> [i \in DOMAIN PopularSearches |-> a],
                    lookup |-> [i \in DOMAIN Top10Titles |-> a]] :
                        a \in CatalogOutcomes}

\* the answers change once within each list
MixedCatalog == CatalogBehaviours({<<2, 3>>, <<5, 0>>})

fetchMoviesByTitle(outcome, title) ==
    IF outcome = "ok" THEN Take(CatalogSearch(title), SearchSlice) ELSE <<>>

RECURSIVE Dedup(_)
\* filter((movie, index, self) => index === self.findIndex(same imdbID))
Dedup(s) ==
    IF s = <<>> THEN <<>>
    ELSE LET rest == Dedup(SubSeq(s, 1, Len(s) - 1))
             last == s[Len(s)]
         IN IF \E i \in 1..Len(s) - 1 : s[i] = last THEN rest
            ELSE Append(rest, last)

RECURSIVE PopularFrom(_, _)
PopularFrom(catalog, i) ==
    IF i > Len(PopularSearches) THEN <<>>
    ELSE fetchMoviesByTitle(catalog.search[i], PopularSearches[i])
         \o PopularFrom(catalog, i + 1)

fetchPopularMovies(catalog) == Take(Dedup(PopularFrom(catalog, 1)), PopularSlice)

RECURSIVE Top10From(_, _)
Top10From(catalog, i) ==
    IF i > Len(Top10Titles) THEN <<>>
    ELSE (IF catalog.lookup[i] = "ok" THEN <<Top10Titles[i]>> ELSE <<>>)
         \o Top10From(catalog, i + 1)

fetchTop10Movies(catalog) == Top10From(catalog, 1)

DiscoverPage(message, results, popular, top10, n) ==
    [Render("discover", message)
     EXCEPT !.catalog = n,
            !.data = Some([results |-> results, popularMovies |-> popular,
                           top10Movies |-> top10])]

\* mutant: the search call's failure escapes the handler and express
\* answers 500
DiscoverCatchMissing(w, n) ==
    Untouched(w, [Response("error", 500, "", NoMsg) EXCEPT !.catalog = n])

\* catch (err): the page with empty lists and the "try again later" message
DiscoverCatch(w, n) ==
    Untouched(w, DiscoverPage(MsgCatalogError, <<>>, <<>>, <<>>, n))

\* process.env.API_KEY is read by each request
Discover(w, q) ==
    IF ~q.apiKey THEN Untouched(w, DiscoverPage(MsgNoKey, <<>>, <<>>, <<>>, 0))
    ELSE IF ~Falsy(q.title)
    THEN (IF q.catalog.query = "error"
          THEN DiscoverCatch(w, 1)
          ELSE IF q.catalog.query = "nomatch"
          THEN Untouched(w, DiscoverPage(MsgNoMovies, <<>>, <<>>, <<>>, 1))
          ELSE Untouched(w, DiscoverPage(NoMsg, CatalogSearch(Val(q.title)),
                                      <<>>, <<>>, 1)))
    ELSE Untouched(w, DiscoverPage(NoMsg, <<>>, fetchPopularMovies(q.catalog),
                                fetchTop10Movies(q.catalog),
                                Len(PopularSearches) + Len(Top10Titles)))

(***************************************************************************)
(* The routes, in the order of their registration.                         *)
(***************************************************************************)
PublicRoutes ==
    {"GET /", "GET /welcome", "GET /register", "POST /register", "GET /login",
     "POST /login"}

ProtectedRoutes ==
    {"GET /profile", "GET /discover", "POST /movies/add", "GET /reviews/new",
     "POST /reviews/add", "GET /reviews", "GET /logout"}

\* the public pages never read the session
PageRequests == [sid : {0}]

DiscoverRequests(Catalog) ==
    [sid : Clients, apiKey : BOOLEAN, title : Field(SearchQueries),
     catalog : Catalog]

\* the requests of the model for a route
Requests(route) ==
    CASE route = "POST /register" -> RegisterRequests
      [] route = "POST /login" -> LoginRequests
      [] route = "GET /profile" -> ProfileRequests
      [] route = "GET /discover" -> DiscoverRequests(UniformCatalog)
      [] route = "POST /movies/add" -> AddMovieRequests
      [] route = "GET /reviews/new" -> NewReviewRequests
      [] route = "POST /reviews/add" -> AddReviewRequests
      [] route = "GET /reviews" -> ReadReviewsRequests
      [] route = "GET /logout" -> LogoutRequests
      [] OTHER -> PageRequests

Protected(w, route, q) ==
    CASE route = "GET /profile" -> Profile(w, q)
      [] route = "GET /discover" -> Discover(w, q)
      [] route = "POST /movies/add" -> AddMovie(w, q)
      [] route = "GET /reviews/new" -> NewReview(w, q)
      [] route = "POST /reviews/add" -> AddReview(w, q)
      [] route = "GET /reviews" -> ReadReviews(w, q)
      [] route = "GET /logout" -> Logout(w, q)

Welcome == [Json(200, "Welcome!") EXCEPT !.data = Some("success")]

Handle(w, route, q) ==
    CASE route = "GET /" -> Untouched(w, Redirect("/login"))
      [] route = "GET /welcome" -> Untouched(w, Welcome)
      [] route = "GET /register" -> Untouched(w, Render("register", NoMsg))
      [] route = "POST /register" -> Register(w, q)
      [] route = "GET /login" -> Untouched(w, Render("login", NoMsg))
      [] route = "POST /login" -> Login(w, q)
      [] OTHER -> Auth(w, q.sid, Protected(w, route, q))

(***************************************************************************)
(* The state machine: a step serves one request.                           *)
(***************************************************************************)
NoResponse == Response("none", 0, "", NoMsg)

\* the state a request is served in
World ==
    [users |-> users, movies |-> movies, reviews |-> reviews,
     user_list |-> user_list, sess |-> sess]

\* a handler not started: no request, no local, no response
Slots == 1..MaxFlights
Idle == [pc |-> "idle", route |-> "", q |-> <<>>, userId |-> 0, movie |-> 0,
         rsp |-> <<>>]

Init ==
    /\ users = <<>>
    /\ movies = <<>>
    /\ reviews = <<>>
    /\ user_list = <<>>
    /\ sess = [c \in Clients |-> None]
    /\ resp = NoResponse
    /\ registered = {}
    /\ flight = [s \in Slots |-> Idle]

\* the bounds of the model on the tables
Fits(o) ==
    Len(o.users) + Len(o.movies) + Len(o.reviews) + Len(o.user_list) <= MaxRows

\* res.status(200).json({message: "User registered successfully"}) or
\* res.redirect("/login")
RegisterSucceeded(rsp) ==
    \/ rsp.kind = "json" /\ rsp.status = 200
    \/ rsp.kind = "redirect" /\ rsp.target = "/login"

\* the response as the trace records it: with its route and session
Sent(rsp, route, q) == [rsp EXCEPT !.route = route, !.sid = q.sid]

GetPage ==
    \E route \in {"GET /", "GET /welcome", "GET /register", "GET /login"} :
    \E q \in PageRequests :
      LET o == Handle(World, route, q) IN
      /\ Fits(o)
      /\ users' = o.users
      /\ movies' = o.movies
      /\ reviews' = o.reviews
      /\ user_list' = o.user_list
      /\ sess' = o.sess
      /\ resp' = Sent(o.resp, route, q)
      /\ UNCHANGED <<registered, flight>>

PostRegister ==
    \E q \in Reaching(RegisterRequests) :
      LET o == Handle(World, "POST /register", q) IN
      /\ Fits(o)
      /\ users' = o.users
      /\ movies' = o.movies
      /\ reviews' = o.reviews
      /\ user_list' = o.user_list
      /\ sess' = o.sess
      /\ resp' = Sent(o.resp, "POST /register", q)
      /\ registered' = IF RegisterSucceeded(o.resp)
                       THEN registered \cup {<<Val(q.username), Val(q.password)>>}
                       ELSE registered
      /\ UNCHANGED flight

PostLogin ==
    \E q \in Reaching(LoginRequests) :
      LET o == Handle(World, "POST /login", q) IN
      /\ Fits(o)
      /\ users' = o.users
      /\ movies' = o.movies
      /\ reviews' = o.reviews
      /\ user_list' = o.user_list
      /\ sess' = o.sess
      /\ resp' = Sent(o.resp, "POST /login", q)
      /\ UNCHANGED <<registered, flight>>

GetProfile ==
    \E q \in ProfileRequests :
      LET o == Handle(World, "GET /profile", q) IN
      /\ Fits(o)
      /\ users' = o.users
      /\ movies' = o.movies
      /\ reviews' = o.reviews
      /\ user_list' = o.user_list
      /\ sess' = o.sess
      /\ resp' = Sent(o.resp, "GET /profile", q)
      /\ UNCHANGED <<registered, flight>>

GetDiscover ==
    \E q \in DiscoverRequests(UniformCatalog) :
      LET o == Handle(World, "GET /discover", q) IN
      /\ Fits(o)
      /\ users' = o.users
      /\ movies' = o.movies
      /\ reviews' = o.reviews
      /\ user_list' = o.user_list
      /\ sess' = o.sess
      /\ resp' = Sent(o.resp, "GET /discover", q)
      /\ UNCHANGED <<registered, flight>>

PostMoviesAdd ==
    \E q \in AddMovieRequests :
      LET o == Handle(World, "POST /movies/add", q) IN
      /\ Fits(o)
      /\ users' = o.users
      /\ movies' = o.movies
      /\ reviews' = o.reviews
      /\ user_list' = o.user_list
      /\ sess' = o.sess
      /\ resp' = Sent(o.resp, "POST /movies/add", q)
      /\ UNCHANGED <<registered, flight>>

GetReviewsNew ==
    \E q \in NewReviewRequests :
      LET o == Handle(World, "GET /reviews/new", q) IN
      /\ Fits(o)
      /\ users' = o.users
      /\ movies' = o.movies
      /\ reviews' = o.reviews
      /\ user_list' = o.user_list
      /\ sess' = o.sess
      /\ resp' = Sent(o.resp, "GET /reviews/new", q)
      /\ UNCHANGED <<registered, flight>>

PostReviewsAdd ==
    \E q \in AddReviewRequests :
      LET o == Handle(World, "POST /reviews/add", q) IN
      /\ Fits(o)
      /\ users' = o.users
      /\ movies' = o.movies
      /\ reviews' = o.reviews
      /\ user_list' = o.user_list
      /\ sess' = o.sess
      /\ resp' = Sent(o.resp, "POST /reviews/add", q)
      /\ UNCHANGED <<registered, flight>>

GetReviews ==
    \E q \in ReadReviewsRequests :
      LET o == Handle(World, "GET /reviews", q) IN
      /\ Fits(o)
      /\ users' = o.users
      /\ movies' = o.movies
      /\ reviews' = o.reviews
      /\ user_list' = o.user_list
      /\ sess' = o.sess
      /\ resp' = Sent(o.resp, "GET /reviews", q)
      /\ UNCHANGED <<registered, flight>>

GetLogout ==
    \E q \in LogoutRequests :
      LET o == Handle(World, "GET /logout", q) IN
      /\ Fits(o)
      /\ users' = o.users
      /\ movies' = o.movies
      /\ reviews' = o.reviews
      /\ user_list' = o.user_list
      /\ sess' = o.sess
      /\ resp' = Sent(o.resp, "GET /logout", q)
      /\ UNCHANGED <<registered, flight>>

\* cookie maxAge: the session store drops a session a day after its last
\* response
SessionExpire ==
    \E c \in Clients :
        /\ sess[c] # None
        /\ sess' = [sess EXCEPT ![c] = None]
        /\ UNCHANGED <<users, movies, reviews, user_list, resp, registered, flight>>

Next ==
    \/ GetPage
    \/ PostRegister
    \/ PostLogin
    \/ GetProfile
    \/ GetDiscover
    \/ PostMoviesAdd
    \/ GetReviewsNew
    \/ PostReviewsAdd
    \/ GetReviews
    \/ GetLogout
    \/ SessionExpire

Spec == Init /\ [][Next]_vars

(***************************************************************************)
(* Handlers in flight together.  A handler runs to its next await, and a   *)
(* statement it awaits is executed by the store at some later step, one    *)
(* statement at a time (no handler opens a transaction); the code after an *)
(* await reads only the handler's locals, so it is taken with the          *)
(* statement it follows.  POST /register awaits bcrypt.hash and its one    *)
(* INSERT; POST /reviews/add awaits a SELECT and up to two INSERTs.        *)
(***************************************************************************)
RaceUser == "alice"
RacePassword == "pw12345"

\* the state the handlers start in: RaceUser registered and logged in on
\* every session, no movie yet
RaceInit ==
    /\ users = InsertUser(<<>>, RaceUser,
                          BcryptHash(RacePassword, "s1")).tbl
    /\ movies = <<>>
    /\ reviews = <<>>
    /\ user_list = <<>>
    /\ sess = [c \in Clients |-> Some(UserRow(users, 1))]
    /\ resp = NoResponse
    /\ registered = {<<RaceUser, RacePassword>>}
    /\ flight = [s \in Slots |-> Idle]

\* the handler of slot s is over: rsp was sent
Done(s, route, q, rsp) ==
    [flight EXCEPT ![s] = [pc |-> "done", route |-> route, q |-> Some(q),
                           userId |-> flight[s].userId,
                           movie |-> flight[s].movie, rsp |-> Some(rsp)]]

\* the handler of slot s stands at the await of its next statement
Await(s, pc, route, q, userId, movie) ==
    [flight EXCEPT ![s] = [pc |-> pc, route |-> route, q |-> Some(q),
                           userId |-> userId, movie |-> movie, rsp |-> <<>>]]

RaceRegisterRequests ==
    {q \in RegisterRequests : q.json /\ ~Faulty(q) /\ q.username # Some("")
                                /\ q.password \in {None, Some(RacePassword)}}

\* POST /register up to await bcrypt.hash: the validation, which answers
\* at once when a field is missing
RegisterBegin(s) ==
    /\ flight[s].pc = "idle"
    /\ \E q \in RaceRegisterRequests :
         IF Falsy(q.username) \/ Falsy(q.password)
         THEN LET o == Register(World, q) IN
              /\ flight' = Done(s, "POST /register", q, o.resp)
              /\ resp' = Sent(o.resp, "POST /register", q)
         ELSE /\ flight' = Await(s, "insert", "POST /register", q, 0, 0)
              /\ UNCHANGED resp
    /\ UNCHANGED <<users, movies, reviews, user_list, sess, registered>>

\* the INSERT INTO users and the response that follows it
RegisterInsert(s) ==
    /\ flight[s].pc = "insert" /\ flight[s].route = "POST /register"
    /\ LET q == Val(flight[s].q)
           o == Register(World, q)
       IN
       /\ users' = o.users
       /\ flight' = Done(s, "POST /register", q, o.resp)
       /\ resp' = Sent(o.resp, "POST /register", q)
       /\ registered' = IF RegisterSucceeded(o.resp)
                        THEN registered \cup {<<Val(q.username), Val(q.password)>>}
                        ELSE registered
    /\ UNCHANGED <<movies, reviews, user_list, sess>>

RaceAddReviewRequests ==
    {q \in AddReviewRequests : q.faultAt = 0 /\ q.rating # None}

\* POST /reviews/add up to the await of its SELECT: the gate and the read
\* of req.session.user.user_id
AddReviewBegin(s) ==
    /\ flight[s].pc = "idle"
    /\ \E q \in RaceAddReviewRequests :
         IF ~Authenticated(World, q.sid)
         THEN LET o == Handle(World, "POST /reviews/add", q) IN
              /\ flight' = Done(s, "POST /reviews/add", q, o.resp)
              /\ resp' = Sent(o.resp, "POST /reviews/add", q)
         ELSE /\ flight' = Await(s, "select", "POST /reviews/add", q,
                                 SessionUser(World, q.sid).user_id, 0)
              /\ UNCHANGED resp
    /\ UNCHANGED <<users, movies, reviews, user_list, sess, registered>>

\* SELECT movie_id FROM movies WHERE title = $1, then if (!movie)
AddReviewSelect(s) ==
    /\ flight[s].pc = "select"
    /\ LET q == Val(flight[s].q)
           sel == SelectMovie(movies, q.title)
       IN
       IF ~sel.ok
       THEN LET rsp == [Redirect("/discover")
                        EXCEPT !.queries = 1, !.err = sel.err.code] IN
            /\ flight' = Done(s, flight[s].route, q, rsp)
            /\ resp' = Sent(rsp, flight[s].route, q)
       ELSE /\ flight' = IF sel.val = None
                         THEN Await(s, "insertMovie", flight[s].route, q,
                                    flight[s].userId, 0)
                         ELSE Await(s, "insertReview", flight[s].route, q,
                                    flight[s].userId, Val(sel.val))
            /\ UNCHANGED resp
    /\ UNCHANGED <<users, movies, reviews, user_list, sess, registered>>

\* INSERT INTO movies (title) VALUES ($1) RETURNING movie_id
AddReviewInsertMovie(s) ==
    /\ flight[s].pc = "insertMovie"
    /\ LET q == Val(flight[s].q)
           mk == InsertMovieTitle(movies, q.title)
       IN
       IF ~mk.ok
       THEN LET rsp == [Redirect("/discover")
                        EXCEPT !.queries = 2, !.err = mk.err.code] IN
            /\ flight' = Done(s, flight[s].route, q, rsp)
            /\ resp' = Sent(rsp, flight[s].route, q)
            /\ UNCHANGED movies
       ELSE /\ movies' = mk.tbl
            /\ flight' = Await(s, "insertReview", flight[s].route, q,
                               flight[s].userId, mk.val)
            /\ UNCHANGED resp
    /\ UNCHANGED <<users, reviews, user_list, sess, registered>>

\* INSERT INTO reviews ..., then res.redirect("/discover") from the try or
\* from the catch
AddReviewInsertReview(s) ==
    /\ flight[s].pc = "insertReview"
    /\ LET q == Val(flight[s].q)
           ins == InsertReview(reviews, flight[s].userId, flight[s].movie,
                               q.rating, q.review_text)
           rsp == [Redirect("/discover")
                   EXCEPT !.queries = 3,
                          !.err = IF ins.ok THEN "" ELSE ins.err.code]
       IN
       /\ reviews' = ins.tbl
       /\ flight' = Done(s, flight[s].route, q, rsp)
       /\ resp' = Sent(rsp, flight[s].route, q)
    /\ UNCHANGED <<users, movies, user_list, sess, registered>>

RaceNext ==
    \E s \in Slots :
        \/ RegisterBegin(s)
        \/ RegisterInsert(s)
        \/ AddReviewBegin(s)
        \/ AddReviewSelect(s)
        \/ AddReviewInsertMovie(s)
        \/ AddReviewInsertReview(s)

SpecRace == RaceInit /\ [][RaceNext]_vars

(***************************************************************************)
(* A profile with many rated titles.  The state the requests start in is   *)
(* the one left by a user who has reviewed SeedCount other titles, each    *)
(* once and all with one rating (POST /reviews/add creates the movie       *)
(* without a year).                                                        *)
(***************************************************************************)
SeedTitles == SelectSeq(TitleOrder, LAMBDA t : t \notin Titles)

\* reviews a request may add to the seeded ones
MaxTopReviews == 2

TopInit ==
    /\ users = InsertUser(<<>>, RaceUser,
                          BcryptHash(RacePassword, "s1")).tbl
    /\ \E n \in {TopLimit - 1, TopLimit} : \E rho \in {MinRating, MaxRating} :
         /\ movies = [i \in 1..n |->
                         [title |-> SeedTitles[i], release_year |-> None]]
         /\ reviews = [i \in 1..n |->
                          [user_id |-> 1, movie_id |-> i, rating |-> Some(rho),
                           review_text |-> Some("Great")]]
    /\ user_list = <<>>
    /\ sess = [c \in Clients |-> Some(UserRow(users, 1))]
    /\ resp = NoResponse
    /\ registered = {<<RaceUser, RacePassword>>}
    /\ flight = [s \in Slots |-> Idle]

TopFits(o) == Len(o.reviews) <= TopLimit + MaxTopReviews

TopMoviesAdd ==
    \E q \in AddMovieRequests :
      LET o == Handle(World, "POST /movies/add", q) IN
      /\ q.faultAt = 0
      /\ movies' = o.movies
      /\ user_list' = o.user_list
      /\ resp' = Sent(o.resp, "POST /movies/add", q)
      /\ UNCHANGED <<users, reviews, sess, registered, flight>>

TopReviewsAdd ==
    \E q \in AddReviewRequests :
      LET o == Handle(World, "POST /reviews/add", q) IN
      /\ q.faultAt = 0
      /\ TopFits(o)
      /\ movies' = o.movies
      /\ reviews' = o.reviews
      /\ resp' = Sent(o.resp, "POST /reviews/add", q)
      /\ UNCHANGED <<users, user_list, sess, registered, flight>>

TopProfile ==
    \E q \in ProfileRequests :
      LET o == Handle(World, "GET /profile", q) IN
      /\ resp' = Sent(o.resp, "GET /profile", q)
      /\ UNCHANGED <<users, movies, reviews, user_list, sess, registered,
                     flight>>

TopNext ==
    \/ TopMoviesAdd
    \/ TopReviewsAdd
    \/ TopProfile

SpecTop == TopInit /\ [][TopNext]_vars

(***************************************************************************)
(* The claims.                                                             *)
(***************************************************************************)
LoginSucceeded(rsp) ==
    \/ rsp.kind = "json" /\ rsp.status = 200 /\ rsp.message = MsgLoginOk
    \/ rsp.kind = "redirect" /\ rsp.target = "/discover"

\* C1: a request to a protected route whose session holds no user is
\* answered with a redirect to /login and the route's handler does not run:
\* no store statement, no catalog call, no change of a table or a session.
C1_GateRedirectsUnauthenticated ==
    \A route \in ProtectedRoutes : \A q \in Requests(route) :
        sess[q.sid] = None =>
            LET o == Handle(World, route, q) IN
            /\ o.resp.kind = "redirect" /\ o.resp.status = 302
            /\ o.resp.target = "/login"
            /\ o.resp.queries = 0 /\ o.resp.catalog = 0 /\ o.resp.err = ""
            /\ o.users = users /\ o.movies = movies /\ o.reviews = reviews
            /\ o.user_list = user_list /\ o.sess = sess

\* C1 witness: with users in the store, a request to a protected route on a
\* session without a user was answered with the redirect to /login
C1_Witness ==
    /\ resp.route = "POST /movies/add"
    /\ resp.kind = "redirect" /\ resp.target = "/login"
    /\ resp.sid \in Clients /\ sess[resp.sid] = None
    /\ users # <<>>

\* C2: the users table holds at most one row per username; a registration
\* that reaches the store with a username that exists is answered with the
\* conflict outcome (400 and the "already exists" message for a JSON client,
\* the register page with that message otherwise) and leaves the table as it
\* was; no registration changes or removes a row that exists.
C2_UsernamesUnique ==
    /\ \A u \in Usernames : Cardinality(UserIdsOf(users, u)) <= 1
    /\ \A q \in RegisterRequests :
         LET o == Handle(World, "POST /register", q) IN
         /\ Len(o.users) >= Len(users)
         /\ \A i \in 1..Len(users) : o.users[i] = users[i]
         /\ ( /\ ~Falsy(q.username) /\ ~Falsy(q.password) /\ ~Faulty(q)
              /\ UserIdsOf(users, Val(q.username)) # {} )
            => /\ o.users = users
               /\ o.resp.message = MsgExists
               /\ IF q.json
                  THEN o.resp.kind = "json" /\ o.resp.status = 400
                  ELSE o.resp.kind = "render" /\ o.resp.target = "register"

\* C2 witness: a JSON registration of a registered username was answered 400
\* "already exists"
C2_Witness ==
    /\ resp.route = "POST /register"
    /\ resp.kind = "json" /\ resp.status = 400 /\ resp.message = MsgExists
    /\ Len(users) = 1

\* C3: a POST /register or POST /login whose username or password is
\* missing or empty is answered 400 "required" (JSON) or with the form and
\* that message, before any store access: no statement is issued, no user
\* row is created and no session is given a user.
C3_MissingCredentialsRejected ==
    \A route \in {"POST /register", "POST /login"} :
    \A q \in Requests(route) :
        (q.username \in {None, Some("")} \/ q.password \in {None, Some("")}) =>
            LET o == Handle(World, route, q) IN
            /\ o.resp.message = MsgRequired
            /\ IF q.json
               THEN o.resp.kind = "json" /\ o.resp.status = 400
               ELSE o.resp.kind = "render"
            /\ o.resp.queries = 0
            /\ o.users = users
            /\ o.sess = sess

\* C3 witness: a JSON login without a credential was answered 400 "required"
\* while a user was registered, and no session holds a user
C3_Witness ==
    /\ resp.route = "POST /login"
    /\ resp.kind = "json" /\ resp.status = 400 /\ resp.message = MsgRequired
    /\ resp.queries = 0
    /\ users # <<>>
    /\ \A c \in Clients : sess[c] = None

\* C4: once POST /register has succeeded for a username and a password, a
\* POST /login with the same username and password that reaches the store
\* succeeds and gives the session that user, and every request of that
\* session to a protected route then passes the gate: its handler answers,
\* not the redirect to /login.
C4_RegisteredCanLogIn ==
    \A cr \in registered : \A c \in Clients : \A json \in BOOLEAN :
        LET q == [sid |-> c, json |-> json, username |-> Some(cr[1]),
                  password |-> Some(cr[2]), fault |-> NoFault]
            o == Handle(World, "POST /login", q)
        IN
        /\ LoginSucceeded(o.resp)
        /\ json <=> o.resp.kind = "json"
        /\ o.sess[c] # None
        /\ Val(o.sess[c]).username = cr[1]
        /\ \A route \in ProtectedRoutes : \A q2 \in Requests(route) :
             q2.sid = c =>
                LET o2 == Handle(o, route, q2) IN
                /\ o2.resp.target # "/login"
                /\ o2 = Protected(o, route, q2)

\* C4 witness: after a registration and a login, the profile page was
\* rendered for the registered user
C4_Witness ==
    /\ registered # {}
    /\ resp.route = "GET /profile"
    /\ resp.kind = "render" /\ resp.target = "profile"
    /\ resp.sid \in Clients /\ sess[resp.sid] # None
    /\ <<Val(sess[resp.sid]).username, "pw12345">> \in registered

\* the state w with the row of username u taken out of the users table
WithoutUser(w, u) ==
    LET other(r) == r.username # u IN
    [w EXCEPT !.users = SelectSeq(w.users, other)]

\* C5 (the claim, which the code violates): a failed login does not reveal
\* whether the username exists: a login with a registered username and a
\* password that does not match is answered as it would be were the
\* username not registered.
C5_LoginHidesExistence ==
    \A q \in LoginRequests :
        ( /\ ~Falsy(q.username) /\ ~Falsy(q.password) /\ ~Faulty(q)
          /\ UserIdsOf(users, Val(q.username)) # {}
          /\ ~LoginSucceeded(Handle(World, "POST /login", q).resp) )
        => Handle(World, "POST /login", q).resp
             = Handle(WithoutUser(World, Val(q.username)), "POST /login", q).resp

ListRowsOf(tbl, user_id, movie_id) ==
    {i \in 1..Len(tbl) : tbl[i].user_id = user_id /\ tbl[i].movie_id = movie_id}

\* C6: POST /movies/add is idempotent per (user, title): the user_list
\* table never holds two rows for a (user, movie) pair; an add that reaches
\* the store leaves exactly one row for the pair and logs no error, and so
\* does the same user's next add of that title (with any year), which
\* leaves the table as the first left it.
C6_AddMovieIdempotent ==
    /\ \A i, j \in 1..Len(user_list) :
         ( /\ user_list[i].user_id = user_list[j].user_id
           /\ user_list[i].movie_id = user_list[j].movie_id ) => i = j
    /\ \A q \in AddMovieRequests :
         (sess[q.sid] # None /\ q.title # None /\ q.faultAt = 0) =>
            LET uid == SessionUser(World, q.sid).user_id
                o1 == Handle(World, "POST /movies/add", q)
                mid == MinOf(MovieIdsOf(o1.movies, q.title))
            IN
            /\ o1.resp.err = ""
            /\ o1.resp.kind = "redirect" /\ o1.resp.target = "/discover"
            /\ Cardinality(MovieIdsOf(o1.movies, q.title)) = 1
            /\ Cardinality(ListRowsOf(o1.user_list, uid, mid)) = 1
            /\ \A q2 \in AddMovieRequests :
                 (q2.sid = q.sid /\ q2.title = q.title /\ q2.faultAt = 0) =>
                    LET o2 == Handle(o1, "POST /movies/add", q2) IN
                    /\ o2.resp.err = ""
                    /\ o2.resp.kind = "redirect" /\ o2.resp.target = "/discover"
                    /\ o2.user_list = o1.user_list
                    /\ Cardinality(ListRowsOf(o2.user_list, uid, mid)) = 1

\* C6 witness: an add was answered without an error and the watchlist holds
\* the one row of the pair
C6_Witness ==
    /\ resp.route = "POST /movies/add"
    /\ resp.kind = "redirect" /\ resp.target = "/discover" /\ resp.err = ""
    /\ Len(movies) = 1 /\ movies[1].release_year = Some(2015)
    /\ Len(user_list) = 1

\* C7 (the claim, which the code violates): every stored review has a
\* rating within 1..10.
C7_StoredRatingsInRange ==
    \A i \in 1..Len(reviews) :
        /\ reviews[i].rating # None
        /\ Val(reviews[i].rating) \in MinRating..MaxRating

\* C8: GET /logout on a session that holds a user destroys the session:
\* tables and other sessions stay as they are, every request of that
\* session to a protected route is then redirected to /login with nothing
\* touched, and a session without a user gets one only from a successful
\* POST /login on that session.
C8_LogoutDestroysSession ==
    /\ (resp.route = "GET /logout" /\ resp.kind = "render")
          => sess[resp.sid] = None
    /\ \A c \in Clients :
         sess[c] # None =>
            LET o == Handle(World, "GET /logout", [sid |-> c]) IN
            /\ o.resp.kind = "render" /\ o.resp.target = "logout"
            /\ o.sess[c] = None
            /\ \A d \in Clients \ {c} : o.sess[d] = sess[d]
            /\ o.users = users /\ o.movies = movies /\ o.reviews = reviews
            /\ o.user_list = user_list
            /\ \A route \in ProtectedRoutes : \A q \in Requests(route) :
                 q.sid = c =>
                    LET o2 == Handle(o, route, q) IN
                    /\ o2.resp.kind = "redirect" /\ o2.resp.target = "/login"
                    /\ o2.resp.queries = 0 /\ o2.resp.catalog = 0
                    /\ o2.sess = o.sess /\ o2.users = o.users
                    /\ o2.movies = o.movies /\ o2.reviews = o.reviews
                    /\ o2.user_list = o.user_list
    /\ \A c \in Clients :
         sess[c] = None =>
            \A route \in PublicRoutes \cup ProtectedRoutes :
            \A q \in Requests(route) :
                LET o == Handle(World, route, q) IN
                o.sess[c] # None =>
                    /\ route = "POST /login" /\ q.sid = c
                    /\ LoginSucceeded(o.resp)

\* C8 witness: a logout was served to a registered user's session, which
\* holds no user now
C8_Witness ==
    /\ resp.route = "GET /logout"
    /\ resp.kind = "render" /\ resp.target = "logout"
    /\ sess[resp.sid] = None
    /\ registered # {}

\* C9 (the claim, which the code violates): for a JSON client a failed
\* registration carries the "already exists" message exactly when its
\* status is 400, and every other persistence failure is answered 500 with
\* the generic "try again later" message.
C9_RegisterFailureClassified ==
    (resp.route = "POST /register" /\ resp.kind = "json" /\ resp.err # "") =>
        /\ resp.message = MsgExists <=> resp.status = 400
        /\ resp.status # 400 => (resp.status = 500 /\ resp.message = MsgRegFailed)

EmptyLists(rsp) ==
    /\ Val(rsp.data).results = <<>>
    /\ Val(rsp.data).popularMovies = <<>>
    /\ Val(rsp.data).top10Movies = <<>>

\* C10: an authenticated GET /discover always renders the discover page
\* (200) and touches nothing: without an API credential no catalog call is
\* made and the lists are empty under the "not configured" message; a
\* search answered no-match or failed in transport renders empty lists
\* under a message; the default page renders whatever its calls returned,
\* with empty lists when every call found nothing or failed.
C10_DiscoverNeverFails ==
    \A q \in DiscoverRequests(MixedCatalog) :
        sess[q.sid] # None =>
            LET o == Handle(World, "GET /discover", q)
                failed(x) == x # "ok"
            IN
            /\ o.resp.kind = "render" /\ o.resp.target = "discover"
            /\ o.resp.status = 200 /\ o.resp.err = ""
            /\ o.users = users /\ o.movies = movies /\ o.reviews = reviews
            /\ o.user_list = user_list /\ o.sess = sess
            /\ ~q.apiKey =>
                 /\ o.resp.catalog = 0
                 /\ EmptyLists(o.resp)
                 /\ o.resp.message = MsgNoKey
            /\ (q.apiKey /\ ~Falsy(q.title) /\ failed(q.catalog.query)) =>
                 /\ EmptyLists(o.resp)
                 /\ o.resp.message =
                      (IF q.catalog.query = "error" THEN MsgCatalogError
                       ELSE MsgNoMovies)
            /\ ( /\ q.apiKey /\ Falsy(q.title)
                 /\ \A i \in DOMAIN q.catalog.search : failed(q.catalog.search[i])
                 /\ \A i \in DOMAIN q.catalog.lookup : failed(q.catalog.lookup[i]) )
               => EmptyLists(o.resp)

\* C10 witness: a search whose catalog call failed in transport was answered
\* with the discover page and the "try again later" message
C10_Witness ==
    /\ resp.route = "GET /discover"
    /\ resp.kind = "render" /\ resp.status = 200
    /\ resp.message = MsgCatalogError
    /\ resp.catalog = 1

\* C11: an authenticated GET /profile renders the profile page only when
\* all three reads succeeded, and then with the three results; when any one
\* of them fails the response is the redirect to /discover and carries no
\* page; the request changes no state.
C11_ProfileAllOrNothing ==
    \A q \in ProfileRequests :
        sess[q.sid] # None =>
            LET o == Handle(World, "GET /profile", q)
                uid == Val(sess[q.sid]).user_id
            IN
            /\ o.users = users /\ o.movies = movies /\ o.reviews = reviews
            /\ o.user_list = user_list /\ o.sess = sess
            /\ o.resp.queries = 3
            /\ IF q.faultAt # 0
               THEN /\ o.resp.kind = "redirect" /\ o.resp.target = "/discover"
                    /\ o.resp.data = <<>>
               ELSE /\ o.resp.kind = "render" /\ o.resp.target = "profile"
                    /\ o.resp.err = ""
                    /\ Val(o.resp.data).watchlist = SelectWatchlist(World, uid)
                    /\ Val(o.resp.data).reviews
                         = SelectMyReviews(World, uid, q.sort = Some("rating_asc"))
                    /\ Val(o.resp.data).topMovies = SelectTopMovies(World, uid)

\* C11 witness: with a review stored, a profile request one of whose reads
\* failed was answered with the redirect to /discover
C11_Witness ==
    /\ resp.route = "GET /profile"
    /\ resp.kind = "redirect" /\ resp.target = "/discover"
    /\ resp.err # "" /\ resp.data = <<>>
    /\ reviews # <<>>

\* the handlers that are over, served POST /register for username u and
\* reached the store
RegisterDone(u) ==
    {s \in Slots : /\ flight[s].pc = "done"
                   /\ flight[s].route = "POST /register"
                   /\ Val(flight[s].q).username = Some(u)
                   /\ Val(flight[s].q).password \notin {None, Some("")}}

\* C12: however the handlers of POST /register requests with the same
\* unused username interleave, the users table never holds two rows of the
\* username, and once any of them are over exactly one was answered with
\* success, every other one with 400 "already exists", and exactly one row
\* of the username exists.
C12_ConcurrentRegisterOneWins ==
    \A u \in Usernames \ {RaceUser} :
        /\ Cardinality(UserIdsOf(users, u)) <= 1
        /\ LET D == RegisterDone(u)
               W == {s \in D : RegisterSucceeded(Val(flight[s].rsp))}
           IN D # {} =>
                /\ Cardinality(W) = 1
                /\ Cardinality(UserIdsOf(users, u)) = 1
                /\ \A s \in D \ W :
                     /\ Val(flight[s].rsp).kind = "json"
                     /\ Val(flight[s].rsp).status = 400
                     /\ Val(flight[s].rsp).message = MsgExists

\* C12 witness: every slot has served a registration of the same unused
\* username, one with success and one with the conflict
C12_Witness ==
    /\ RegisterDone("bob") = Slots
    /\ \E s \in Slots : Val(flight[s].rsp).status = 200
    /\ \E s \in Slots : Val(flight[s].rsp).status = 400

\* the handlers that are over and served POST /reviews/add for title t with
\* a rating within the range
AddReviewDone(t) ==
    {s \in Slots : /\ flight[s].pc = "done"
                   /\ flight[s].route = "POST /reviews/add"
                   /\ Val(flight[s].q).title = Some(t)
                   /\ Val(Val(flight[s].q).rating) \in MinRating..MaxRating}

\* C15 (the claim, which the code violates): however the handlers of
\* authenticated POST /reviews/add requests with valid ratings for the same
\* unseen title interleave, once any of them are over exactly one movies
\* row of the title exists and each of them has stored a review row tied to
\* that movie.
C15_ConcurrentReviewsBothStored ==
    \A t \in Titles :
        LET D == AddReviewDone(t)
            ids == MovieIdsOf(movies, Some(t))
            valid(s) == flight[s].route = "POST /reviews/add" =>
                          Val(Val(flight[s].q).rating) \in MinRating..MaxRating
        IN (D # {} /\ \A s \in Slots : valid(s)) =>
             /\ Cardinality(ids) = 1
             /\ \A s \in D : Val(flight[s].rsp).err = ""
             /\ Cardinality({i \in 1..Len(reviews) : reviews[i].movie_id \in ids})
                  = Cardinality(D)

\* the sum of the ratings of the reviews rows whose indices are in S
RECURSIVE RatingSum(_)
RatingSum(S) ==
    IF S = {} THEN 0
    ELSE LET i == CHOOSE x \in S : TRUE IN
         Val(reviews[i].rating) + RatingSum(S \ {i})

\* the rated reviews of user uid for the movies ids
RatedBy(uid, ids) ==
    {i \in 1..Len(reviews) : /\ reviews[i].user_id = uid
                             /\ reviews[i].movie_id \in ids
                             /\ reviews[i].rating # None}

\* session c's user has title t on the watchlist and a rated review of it
AddedAndReviewed(c, t) ==
    /\ sess[c] # None
    /\ LET uid == Val(sess[c]).user_id
           ids == MovieIdsOf(movies, Some(t))
       IN /\ \E i \in 1..Len(user_list) :
               user_list[i].user_id = uid /\ user_list[i].movie_id \in ids
          /\ RatedBy(uid, ids) # {}

\* the page GET /profile renders for session c under sort
ProfilePage(c, sort) ==
    Val(Handle(World, "GET /profile",
               [sid |-> c, sort |-> sort, faultAt |-> 0]).resp.data)

HasTitle(rows, t) == \E k \in 1..Len(rows) : rows[k].title = t

C14_FindOrCreateMovie ==
    /\ \A t \in Titles : Cardinality(MovieIdsOf(movies, Some(t))) <= 1
    /\ \A i, j \in 1..Len(movies) : movies[i].title = movies[j].title => i = j
    /\ \A t \in Titles : \A q \in AddMovieRequests :
         (sess[q.sid] # None /\ q.title = Some(t) /\ q.faultAt # 1) =>
            LET o == Handle(World, "POST /movies/add", q)
                ids == MovieIdsOf(movies, Some(t))
            IN
            IF ids = {}
            THEN o.movies = Append(movies, [title |-> t, release_year |-> q.year])
            ELSE /\ Len(o.movies) = Len(movies)
                 /\ \A i \in 1..Len(movies) :
                      o.movies[i] = IF i \in ids
                                    THEN [title |-> t, release_year |-> q.year]
                                    ELSE movies[i]
    /\ \A t \in Titles : \A q \in AddReviewRequests :
         (sess[q.sid] # None /\ q.title = Some(t)) =>
            LET o == Handle(World, "POST /reviews/add", q) IN
            IF MovieIdsOf(movies, Some(t)) # {}
            THEN o.movies = movies
            ELSE q.faultAt \notin {1, 2} =>
                   o.movies = Append(movies, [title |-> t, release_year |-> None])

\* C14 witness: the title has a review, and a POST /movies/add was answered
\* after which its one row carries the year 2015
C14_Witness ==
    /\ resp.route = "POST /movies/add" /\ resp.err = ""
    /\ \E i \in 1..Len(movies) :
         /\ movies[i] = [title |-> "Interstellar", release_year |-> Some(2015)]
         /\ \E k \in 1..Len(reviews) : reviews[k].movie_id = i
         /\ \E k \in 1..Len(user_list) : user_list[k].movie_id = i

AllRoutes == PublicRoutes \cup ProtectedRoutes

\* C16: a session holds a user only as the result of a POST /login with a
\* registered username and the password its stored hash was made of: the
\* user of a session is a row of the users table, a request gives a session
\* a user or another user only when it is a POST /login on that session
\* that the store answered, whose username has that row and whose password
\* hashes to the row's hash, and a login that fails (missing field, unknown
\* username, wrong password, store error) leaves every session as it was.
C16_SessionOnlyByLogin ==
    /\ \A c \in Clients :
         sess[c] # None =>
            \E i \in 1..Len(users) : Val(sess[c]) = UserRow(users, i)
    /\ \A route \in AllRoutes : \A q \in Requests(route) :
         LET o == Handle(World, route, q) IN
         \A c \in Clients :
            (o.sess[c] # sess[c] /\ o.sess[c] # None) =>
               /\ route = "POST /login" /\ q.sid = c
               /\ q.username \notin {None, Some("")}
               /\ q.password \notin {None, Some("")}
               /\ q.fault = NoFault
               /\ LoginSucceeded(o.resp)
               /\ <<Val(q.username), Val(q.password)>> \in registered
               /\ \E i \in 1..Len(users) :
                    /\ o.sess[c] = Some(UserRow(users, i))
                    /\ users[i].username = Val(q.username)
                    /\ users[i].password
                         = BcryptHash(Val(q.password), users[i].password.salt)
    /\ \A q \in LoginRequests :
         LET o == Handle(World, "POST /login", q) IN
         /\ ~LoginSucceeded(o.resp) => o.sess = sess
         /\ ( \/ q.username \in {None, Some("")} \/ q.password \in {None, Some("")}
              \/ q.fault # NoFault
              \/ <<Val(q.username), Val(q.password)>> \notin registered )
            => ~LoginSucceeded(o.resp)

\* C16 witness: a login with a registered username and another password was
\* answered 401 and the session holds no user
C16_Witness ==
    /\ resp.route = "POST /login"
    /\ resp.status = 401 /\ resp.message = MsgIncorrect
    /\ resp.sid \in Clients
    /\ sess[resp.sid] = None
    /\ registered # {}

\* C17 (the claim, which the code violates): once a session holds a user,
\* no request changes the user the session holds, another POST /login
\* included; only GET /logout (and expiry) takes it away.
C17_SessionIdentityImmutable ==
    \A c \in Clients :
        sess[c] # None =>
            \A route \in AllRoutes : \A q \in Requests(route) :
                LET o == Handle(World, route, q) IN
                o.sess[c] # sess[c] =>
                    /\ route = "GET /logout" /\ q.sid = c
                    /\ o.sess[c] = None

\* C18 (the claim, which the code violates): an authenticated POST
\* /reviews/add or POST /movies/add whose handler caught a persistence
\* error answers with the redirect to /discover and leaves the movies,
\* reviews and user_list tables as they were.
C18_FailedWriteChangesNothing ==
    \A route \in {"POST /reviews/add", "POST /movies/add"} :
    \A q \in Requests(route) :
        LET o == Handle(World, route, q) IN
        (sess[q.sid] # None /\ o.resp.err # "") =>
            /\ o.resp.kind = "redirect" /\ o.resp.target = "/discover"
            /\ o.movies = movies
            /\ o.reviews = reviews
            /\ o.user_list = user_list

====
